---- MODULE Spec2Model ----
(***************************************************************************)
(* Jal-Rakshya: the dynamic alert engine (generateAlerts) as a state       *)
(* machine.  A call takes the latest water record `data` and an optional   *)
(* `history` array and returns the ordered list of alerts.                 *)
(*                                                                         *)
(* JavaScript values are records tagged with their type, so that an absent *)
(* field (undefined), null and a number stay distinct and the relational   *)
(* operators coerce them as the language does.  pH values are held in      *)
(* tenths (6.5 is 65, 8.0 is 80); every other number is an integer.        *)
(***************************************************************************)
EXTENDS Integers, Sequences, FiniteSets, TLC

VARIABLES data, history, alerts, now, pc, given, locationData, updates, alertsBefore,
          badge, report, map

\* The variables of the alert engine, and those of the user interface.
engineVars == <<data, history, alerts, given, locationData, updates, alertsBefore>>

uiVars == <<badge, report, map>>

vars == <<data, history, alerts, now, pc, given, locationData, updates, alertsBefore,
          badge, report, map>>

---------------------------------------------------------------------------
(* JavaScript values and the operators the engine applies to them *)

Undefined == [t |-> "undefined"]

Null == [t |-> "null"]

Num(n) == [t |-> "number", n |-> n]

Str(s) == [t |-> "string", s |-> s]

Arr(a) == [t |-> "array", a |-> a]

\* ToNumber yields NaN for undefined; every comparison with NaN is false.
IsNaN(v) == v.t = "undefined"

\* ToNumber: null is +0, a number is itself.
ToNumber(v) == IF v.t = "null" THEN 0 ELSE v.n

\* a >= b
JsGe(a, b) == ~IsNaN(a) /\ ~IsNaN(b) /\ ToNumber(a) >= ToNumber(b)

\* a <= b
JsLe(a, b) == ~IsNaN(a) /\ ~IsNaN(b) /\ ToNumber(a) <= ToNumber(b)

\* a > b
JsGt(a, b) == ~IsNaN(a) /\ ~IsNaN(b) /\ ToNumber(a) > ToNumber(b)

\* a < b
JsLt(a, b) == ~IsNaN(a) /\ ~IsNaN(b) /\ ToNumber(a) < ToNumber(b)

\* a === b
StrictEq(a, b) == a = b

\* the truthiness of `history` in `history && ...`
Truthy(v) == v.t \notin {"undefined", "null"}

---------------------------------------------------------------------------
(* ALERT_THRESHOLDS. pH is held in tenths and groundwaterLevel in           *)
(* hundredths of a metre, as are their thresholds.                         *)

ALERT_THRESHOLDS ==
  [ criticalWaterLevel |-> 1500,
    warningWaterLevel  |-> 1200,
    highDepletion      |-> 5,
    criticalDepletion  |-> 7,
    lowRainfall        |-> 700,
    criticalRainfall   |-> 600,
    highPH             |-> 80,
    lowPH              |-> 65,
    highConsumption    |-> 500 ]

---------------------------------------------------------------------------
(* The point-in-time checks of generateAlerts, one operator per block.     *)
(* An alert keeps the fields that vary: `message` holds the values         *)
(* interpolated into the message text; the recommendation, a fixed text    *)
(* per title, is left out.                                                 *)

\* alerts.push({ type, category, title, message, value, threshold, ... })
Alert(type, category, title, message, value, threshold, timestamp) ==
  [ type |-> type, category |-> category, title |-> title, message |-> message,
    value |-> value, threshold |-> threshold, timestamp |-> timestamp ]

\* alerts.push({ ... }) of an object literal without a threshold property
AlertNoThreshold(type, category, title, message, value, timestamp) ==
  [ type |-> type, category |-> category, title |-> title, message |-> message,
    value |-> value, timestamp |-> timestamp ]

WaterLevelAlertsStrict(d, timestamp) ==
  IF JsGt(d.groundwaterLevel, Num(ALERT_THRESHOLDS.criticalWaterLevel))
  THEN << Alert("critical", "Water Level", "Critical Water Level",
                <<d.groundwaterLevel, d.location>>, d.groundwaterLevel,
                Num(ALERT_THRESHOLDS.criticalWaterLevel), timestamp) >>
  ELSE IF JsGt(d.groundwaterLevel, Num(ALERT_THRESHOLDS.warningWaterLevel))
  THEN << Alert("warning", "Water Level", "Low Water Table",
                <<d.groundwaterLevel, d.location>>, d.groundwaterLevel,
                Num(ALERT_THRESHOLDS.warningWaterLevel), timestamp) >>
  ELSE << >>

WaterLevelAlerts(d, timestamp) ==
  IF JsGe(d.groundwaterLevel, Num(ALERT_THRESHOLDS.criticalWaterLevel))
  THEN << Alert("critical", "Water Level", "Critical Water Level",
                <<d.groundwaterLevel, d.location>>, d.groundwaterLevel,
                Num(ALERT_THRESHOLDS.criticalWaterLevel), timestamp) >>
  ELSE IF JsGe(d.groundwaterLevel, Num(ALERT_THRESHOLDS.warningWaterLevel))
  THEN << Alert("warning", "Water Level", "Low Water Table",
                <<d.groundwaterLevel, d.location>>, d.groundwaterLevel,
                Num(ALERT_THRESHOLDS.warningWaterLevel), timestamp) >>
  ELSE << >>

\* The two branches as independent ifs instead of if / else if.
DepletionAlertsNoElse(d, timestamp) ==
  (IF JsGe(d.depletionRate, Num(ALERT_THRESHOLDS.criticalDepletion))
   THEN << Alert("critical", "Depletion", "Over-extraction Detected",
                 <<d.depletionRate, d.location>>, d.depletionRate,
                 Num(ALERT_THRESHOLDS.criticalDepletion), timestamp) >>
   ELSE << >>)
  \o
  (IF JsGe(d.depletionRate, Num(ALERT_THRESHOLDS.highDepletion))
   THEN << Alert("warning", "Depletion", "High Depletion Rate",
                 <<d.depletionRate, d.location>>, d.depletionRate,
                 Num(ALERT_THRESHOLDS.highDepletion), timestamp) >>
   ELSE << >>)

DepletionAlerts(d, timestamp) ==
  IF JsGe(d.depletionRate, Num(ALERT_THRESHOLDS.criticalDepletion))
  THEN << Alert("critical", "Depletion", "Over-extraction Detected",
                <<d.depletionRate, d.location>>, d.depletionRate,
                Num(ALERT_THRESHOLDS.criticalDepletion), timestamp) >>
  ELSE IF JsGe(d.depletionRate, Num(ALERT_THRESHOLDS.highDepletion))
  THEN << Alert("warning", "Depletion", "High Depletion Rate",
                <<d.depletionRate, d.location>>, d.depletionRate,
                Num(ALERT_THRESHOLDS.highDepletion), timestamp) >>
  ELSE << >>

\* Both comparisons strict (< instead of <=).
RainfallAlertsStrict(d, timestamp) ==
  IF JsLt(d.rainfall, Num(ALERT_THRESHOLDS.criticalRainfall))
  THEN << Alert("critical", "Rainfall", "Drought Risk",
                <<d.rainfall, d.location>>, d.rainfall,
                Num(ALERT_THRESHOLDS.criticalRainfall), timestamp) >>
  ELSE IF JsLt(d.rainfall, Num(ALERT_THRESHOLDS.lowRainfall))
  THEN << Alert("warning", "Rainfall", "Below Normal Rainfall",
                <<d.rainfall, d.location>>, d.rainfall,
                Num(ALERT_THRESHOLDS.lowRainfall), timestamp) >>
  ELSE << >>

RainfallAlerts(d, timestamp) ==
  IF JsLe(d.rainfall, Num(ALERT_THRESHOLDS.criticalRainfall))
  THEN << Alert("critical", "Rainfall", "Drought Risk",
                <<d.rainfall, d.location>>, d.rainfall,
                Num(ALERT_THRESHOLDS.criticalRainfall), timestamp) >>
  ELSE IF JsLe(d.rainfall, Num(ALERT_THRESHOLDS.lowRainfall))
  THEN << Alert("warning", "Rainfall", "Below Normal Rainfall",
                <<d.rainfall, d.location>>, d.rainfall,
                Num(ALERT_THRESHOLDS.lowRainfall), timestamp) >>
  ELSE << >>

\* The acid tail compared strictly (< instead of <=).
PhAlertsStrictLow(d, timestamp) ==
  IF \/ JsGe(d.ph, Num(ALERT_THRESHOLDS.highPH))
     \/ JsLt(d.ph, Num(ALERT_THRESHOLDS.lowPH))
  THEN << Alert("warning", "Water Quality", "pH Imbalance",
                <<d.ph, d.location>>, d.ph, Str("6.5-8"), timestamp) >>
  ELSE << >>

\* The threshold is the text `${lowPH}-${highPH}`, "6.5-8".
PhAlerts(d, timestamp) ==
  IF \/ JsGe(d.ph, Num(ALERT_THRESHOLDS.highPH))
     \/ JsLe(d.ph, Num(ALERT_THRESHOLDS.lowPH))
  THEN << Alert("warning", "Water Quality", "pH Imbalance",
                <<d.ph, d.location>>, d.ph, Str("6.5-8"), timestamp) >>
  ELSE << >>

\* Raised as a warning instead of an info.
ConsumptionAlertsWarning(d, timestamp) ==
  IF JsGe(d.consumption, Num(ALERT_THRESHOLDS.highConsumption))
  THEN << Alert("warning", "Consumption", "High Water Consumption",
                <<d.consumption, d.location>>, d.consumption,
                Num(ALERT_THRESHOLDS.highConsumption), timestamp) >>
  ELSE << >>

ConsumptionAlerts(d, timestamp) ==
  IF JsGe(d.consumption, Num(ALERT_THRESHOLDS.highConsumption))
  THEN << Alert("info", "Consumption", "High Water Consumption",
                <<d.consumption, d.location>>, d.consumption,
                Num(ALERT_THRESHOLDS.highConsumption), timestamp) >>
  ELSE << >>

\* The title `${d.scarcityLevel} Water Scarcity`.
ScarcityTitle(level) ==
  CASE StrictEq(level, Str("Severe"))  -> "Severe Water Scarcity"
    [] StrictEq(level, Str("Extreme")) -> "Extreme Water Scarcity"
    [] StrictEq(level, Str("High"))    -> "High Water Scarcity"
    [] StrictEq(level, Str("Moderate")) -> "Moderate Water Scarcity"
    [] StrictEq(level, Str("Low"))     -> "Low Water Scarcity"
    [] OTHER                           -> "undefined Water Scarcity"

\* High counted as well, as the advisory of generateGovUpdates does.
ScarcityAlertsWithHigh(d, timestamp) ==
  IF \/ StrictEq(d.scarcityLevel, Str("Severe"))
     \/ StrictEq(d.scarcityLevel, Str("Extreme"))
     \/ StrictEq(d.scarcityLevel, Str("High"))
  THEN << AlertNoThreshold("critical", "Scarcity", ScarcityTitle(d.scarcityLevel),
                           <<d.location, d.scarcityLevel>>, d.scarcityLevel,
                           timestamp) >>
  ELSE << >>

ScarcityAlerts(d, timestamp) ==
  IF \/ StrictEq(d.scarcityLevel, Str("Severe"))
     \/ StrictEq(d.scarcityLevel, Str("Extreme"))
  THEN << AlertNoThreshold("critical", "Scarcity", ScarcityTitle(d.scarcityLevel),
                           <<d.location, d.scarcityLevel>>, d.scarcityLevel,
                           timestamp) >>
  ELSE << >>

---------------------------------------------------------------------------
(* The trend scan: the sorted copy, the three streak counters and the      *)
(* split-half comparison of the water scores                               *)

\* r goes behind every record of the sorted t whose year is not greater.
InsertByYear(t, r) ==
  LET k == Cardinality({i \in 1..Len(t) : t[i].year - r.year <= 0})
  IN  SubSeq(t, 1, k) \o <<r>> \o SubSeq(t, k + 1, Len(t))

\* The array left as the caller ordered it.
SortByYearUnsorted(h) == h

RECURSIVE SortByYear(_)
\* sort((a, b) => a.year - b.year): a stable ascending sort.
SortByYear(h) ==
  IF h = << >> THEN << >>
  ELSE InsertByYear(SortByYear(SubSeq(h, 1, Len(h) - 1)), h[Len(h)])

\* The caller's own array sorted, without a copy: history.sort(...).
SortInPlace(a) == [source |-> SortByYear(a), sorted |-> SortByYear(a)]

\* const sorted = [...history].sort(...): the spread makes a new array of
\* the same records, sort orders that array in place and returns it; source
\* is the caller's array after the statement.
SortedCopy(a) == [source |-> a, sorted |-> SortByYear(a)]

RECURSIVE ConsecutiveRiseNoReset(_, _)
\* The counter kept, not reset, on a step that does not rise.
ConsecutiveRiseNoReset(sorted, i) ==
  IF i <= 1 THEN 0
  ELSE IF JsGt(sorted[i].groundwaterLevel, sorted[i - 1].groundwaterLevel)
       THEN ConsecutiveRiseNoReset(sorted, i - 1) + 1
       ELSE ConsecutiveRiseNoReset(sorted, i - 1)

RECURSIVE ConsecutiveRiseNonStrict(_, _)
\* A level year counted as a rise (>= instead of >).
ConsecutiveRiseNonStrict(sorted, i) ==
  IF i <= 1 THEN 0
  ELSE IF JsGe(sorted[i].groundwaterLevel, sorted[i - 1].groundwaterLevel)
       THEN ConsecutiveRiseNonStrict(sorted, i - 1) + 1
       ELSE 0

RECURSIVE ConsecutiveRise(_, _)
\* consecutiveRise after the loop body has run for index i (1-based; the
\* loop starts at the second record).
ConsecutiveRise(sorted, i) ==
  IF i <= 1 THEN 0
  ELSE IF JsGt(sorted[i].groundwaterLevel, sorted[i - 1].groundwaterLevel)
       THEN ConsecutiveRise(sorted, i - 1) + 1
       ELSE 0

RECURSIVE ConsecutiveDepIncrease(_, _)
ConsecutiveDepIncrease(sorted, i) ==
  IF i <= 1 THEN 0
  ELSE IF JsGt(sorted[i].depletionRate, sorted[i - 1].depletionRate)
       THEN ConsecutiveDepIncrease(sorted, i - 1) + 1
       ELSE 0

RECURSIVE ConsecutiveRainfallDrop(_, _)
ConsecutiveRainfallDrop(sorted, i) ==
  IF i <= 1 THEN 0
  ELSE IF JsLt(sorted[i].rainfall, sorted[i - 1].rainfall)
       THEN ConsecutiveRainfallDrop(sorted, i - 1) + 1
       ELSE 0

\* The score of a record, as the scoring module returns it.
calculateWaterScore(d) == d.waterScore

RECURSIVE SumSeq(_)
\* reduce((a, b) => a + b, 0)
SumSeq(s) == IF s = << >> THEN 0 ELSE SumSeq(SubSeq(s, 1, Len(s) - 1)) + s[Len(s)]

\* Math.round of the fraction p / q, q > 0: halves round towards +infinity.
MathRound(p, q) == (2 * p + q) \div (2 * q)

RECURSIVE TwoPowMod(_, _)
\* 2^k modulo q.
TwoPowMod(k, q) == IF k = 0 THEN 1 % q ELSE (2 * TwoPowMod(k - 1, q)) % q

\* The power of two e with 2^e <= p / q < 2^(e + 1), for 1/8 <= p / q < 128.
Binade(p, q) ==
  CHOOSE e \in (0 - 3)..6 : 2^(e + 3) * q <= 8 * p /\ 8 * p < 2^(e + 4) * q

\* A quotient p / q held as a double (a mean sum / length, or a data value
\* of p hundredths): p / q rounded to a 53-bit
\* significand, nearest first. The result is p / q + (num / q) * 2^(exp - 52):
\* the remainder r of p * 2^(52 - exp) by q tells how far the quotient lies
\* above the double below it (r / q of a unit in the last place), and the
\* nearer double is taken (no tie arises for q < 2^46).
DivisionError(p, q) ==
  IF p % q = 0 THEN [num |-> 0, exp |-> 0]
  ELSE LET e == Binade(p, q)
           r == ((p % q) * TwoPowMod(52 - e, q)) % q
       IN  [num |-> IF 2 * r < q THEN 0 - r ELSE q - r, exp |-> e]

\* A string of digits with one decimal, of the value tenths / 10.
Fixed1(tenths) == [t |-> "string", tenths |-> tenths]

\* (a - b).toFixed(1) for the doubles a and b of last and first hundredths,
\* last > first and neither more than twice the other (the subtraction is
\* then exact): the tenth nearest to the double a - b. Only when the
\* difference ends in 5 hundredths do the rounding errors of a and b decide.
ToFixed1(last, first) ==
  LET c        == last - first
      errLast  == DivisionError(last, 100)
      errFirst == DivisionError(first, 100)
  IN  IF c % 10 # 5 THEN Fixed1((c + 5) \div 10)
      ELSE IF errLast.num * 2^(errLast.exp + 3) >= errFirst.num * 2^(errFirst.exp + 3)
           THEN Fixed1(c \div 10 + 1)
           ELSE Fixed1(c \div 10)

\* The rise measured from the record one position too late.
WaterLevelTrendShortWindow(d, sorted, timestamp) ==
  LET consecutiveRise == ConsecutiveRise(sorted, Len(sorted))
  IN  IF consecutiveRise >= 3
      THEN LET totalRiseFixed ==
               ToFixed1(ToNumber(sorted[Len(sorted)].groundwaterLevel),
                        ToNumber(sorted[Len(sorted) - consecutiveRise + 1].groundwaterLevel))
           IN << AlertNoThreshold("warning", "Trend", "Sustained Water Level Decline",
                                  <<d.location, Num(consecutiveRise), totalRiseFixed>>,
                                  Num(consecutiveRise), timestamp) >>
      ELSE << >>

\* The value counts the years of the streak instead of its steps.
WaterLevelTrendCountsYears(d, sorted, timestamp) ==
  LET consecutiveRise == ConsecutiveRise(sorted, Len(sorted))
  IN  IF consecutiveRise >= 3
      THEN LET totalRiseFixed ==
               ToFixed1(ToNumber(sorted[Len(sorted)].groundwaterLevel),
                        ToNumber(sorted[Len(sorted) - consecutiveRise].groundwaterLevel))
           IN << AlertNoThreshold("warning", "Trend", "Sustained Water Level Decline",
                                  <<d.location, Num(consecutiveRise + 1), totalRiseFixed>>,
                                  Num(consecutiveRise + 1), timestamp) >>
      ELSE << >>

WaterLevelTrend(d, sorted, timestamp) ==
  LET consecutiveRise == ConsecutiveRise(sorted, Len(sorted))
  IN  IF consecutiveRise >= 3
      THEN LET totalRiseFixed ==
               ToFixed1(ToNumber(sorted[Len(sorted)].groundwaterLevel),
                        ToNumber(sorted[Len(sorted) - consecutiveRise].groundwaterLevel))
           IN << AlertNoThreshold("warning", "Trend", "Sustained Water Level Decline",
                                  <<d.location, Num(consecutiveRise), totalRiseFixed>>,
                                  Num(consecutiveRise), timestamp) >>
      ELSE << >>

\* Raised as a warning, like the other two streak alerts.
DepletionTrendWarning(d, sorted, timestamp) ==
  LET consecutiveDepIncrease == ConsecutiveDepIncrease(sorted, Len(sorted))
  IN  IF consecutiveDepIncrease >= 3
      THEN << AlertNoThreshold("warning", "Trend", "Accelerating Depletion Trend",
                               <<d.location, Num(consecutiveDepIncrease), d.depletionRate>>,
                               Num(consecutiveDepIncrease), timestamp) >>
      ELSE << >>

DepletionTrend(d, sorted, timestamp) ==
  LET consecutiveDepIncrease == ConsecutiveDepIncrease(sorted, Len(sorted))
  IN  IF consecutiveDepIncrease >= 3
      THEN << AlertNoThreshold("critical", "Trend", "Accelerating Depletion Trend",
                               <<d.location, Num(consecutiveDepIncrease), d.depletionRate>>,
                               Num(consecutiveDepIncrease), timestamp) >>
      ELSE << >>

\* Two falling steps are enough for the alert.
RainfallTrendFromTwoSteps(d, sorted, timestamp) ==
  LET consecutiveRainfallDrop == ConsecutiveRainfallDrop(sorted, Len(sorted))
  IN  IF consecutiveRainfallDrop >= 2
      THEN << AlertNoThreshold("warning", "Trend", "Declining Rainfall Pattern",
                               <<d.location, Num(consecutiveRainfallDrop)>>,
                               Num(consecutiveRainfallDrop), timestamp) >>
      ELSE << >>

RainfallTrend(d, sorted, timestamp) ==
  LET consecutiveRainfallDrop == ConsecutiveRainfallDrop(sorted, Len(sorted))
  IN  IF consecutiveRainfallDrop >= 3
      THEN << AlertNoThreshold("warning", "Trend", "Declining Rainfall Pattern",
                               <<d.location, Num(consecutiveRainfallDrop)>>,
                               Num(consecutiveRainfallDrop), timestamp) >>
      ELSE << >>

\* The first half is a quarter of the scores: none of three.
FirstHalfQuarter(scores) == SubSeq(scores, 1, Len(scores) \div 4)

\* The first half takes the middle score of an odd number of scores.
FirstHalfCeil(scores) == SubSeq(scores, 1, (Len(scores) + 1) \div 2)

\* scores.slice(0, Math.floor(scores.length / 2))
FirstHalf(scores) == SubSeq(scores, 1, Len(scores) \div 2)

\* scores.slice(Math.floor(scores.length / 2))
SecondHalf(scores) == SubSeq(scores, Len(scores) \div 2 + 1, Len(scores))

\* avgSecond < avgFirst - 10 on the doubles avgSecond = sumSecond / lenSecond
\* and avgFirst = sumFirst / lenFirst, for integer scores from 0 to 100 and
\* avgFirst >= 4 (the subtraction of 10 is then exact): the exact quotients
\* decide unless they differ by exactly 10, and then the rounding errors do.
\* The mean of no scores is 0 / 0 = NaN, and a comparison with NaN is false.
AvgBelowByTen(sumSecond, lenSecond, sumFirst, lenFirst) ==
  LET left   == sumSecond * lenFirst
      right  == (sumFirst - 10 * lenFirst) * lenSecond
      errSecond == DivisionError(sumSecond, lenSecond)
      errFirst  == DivisionError(sumFirst, lenFirst)
  IN  /\ lenFirst # 0 /\ lenSecond # 0
      /\ \/ left < right
         \/ /\ left = right
            /\ errSecond.num * 2^(errSecond.exp + 3) * lenFirst
                 < errFirst.num * 2^(errFirst.exp + 3) * lenSecond

\* The halves' means are kept as sum and length. Math.round of a mean and
\* of the difference of the means is the rounding of the exact fraction: the
\* doubles are within 2^-45 of it and the fraction is never a half-integer
\* unless both divisions are exact.
HealthTrend(d, sorted, timestamp) ==
  LET scores     == [i \in 1..Len(sorted) |-> calculateWaterScore(sorted[i])]
      firstHalf  == FirstHalf(scores)
      secondHalf == SecondHalf(scores)
      sumFirst   == SumSeq(firstHalf)
      sumSecond  == SumSeq(secondHalf)
      lenFirst   == Len(firstHalf)
      lenSecond  == Len(secondHalf)
  IN  IF AvgBelowByTen(sumSecond, lenSecond, sumFirst, lenFirst)
      THEN << AlertNoThreshold("warning", "Trend", "Overall Water Health Declining",
                               <<d.location, Num(MathRound(sumFirst, lenFirst)),
                                 Num(MathRound(sumSecond, lenSecond))>>,
                               Num(MathRound(sumSecond * lenFirst - sumFirst * lenSecond,
                                             lenFirst * lenSecond)),
                               timestamp) >>
      ELSE << >>

\* The clock read again for the alerts of the scan.
TrendAlertsRestamped(d, h, timestamp) ==
  IF Truthy(h) /\ Len(h.a) >= 3
  THEN LET sorted == SortedCopy(h.a).sorted
       IN  WaterLevelTrend(d, sorted, timestamp + 1)
           \o DepletionTrend(d, sorted, timestamp + 1)
           \o RainfallTrend(d, sorted, timestamp + 1)
           \o HealthTrend(d, sorted, timestamp + 1)
  ELSE << >>

\* The scan entered from two records on.
TrendAlertsFromTwo(d, h, timestamp) ==
  IF Truthy(h) /\ Len(h.a) >= 2
  THEN LET sorted == SortedCopy(h.a).sorted
       IN  WaterLevelTrend(d, sorted, timestamp)
           \o DepletionTrend(d, sorted, timestamp)
           \o RainfallTrend(d, sorted, timestamp)
           \o HealthTrend(d, sorted, timestamp)
  ELSE << >>

\* if (history && history.length >= 3) { ... }
TrendAlerts(d, h, timestamp) ==
  IF Truthy(h) /\ Len(h.a) >= 3
  THEN LET sorted == SortedCopy(h.a).sorted
       IN  WaterLevelTrend(d, sorted, timestamp)
           \o DepletionTrend(d, sorted, timestamp)
           \o RainfallTrend(d, sorted, timestamp)
           \o HealthTrend(d, sorted, timestamp)
  ELSE << >>

\* The caller's history once the call has returned: the scan is the only
\* place that handles the array as a whole, every other line reads fields.
HistoryAfterCall(h) ==
  IF Truthy(h) /\ Len(h.a) >= 3 THEN Arr(SortedCopy(h.a).source) ELSE h

\* The scarcity check placed ahead of the consumption check.
generateAlertsScarcityFirst(d, h, timestamp) ==
  WaterLevelAlerts(d, timestamp)
  \o DepletionAlerts(d, timestamp)
  \o RainfallAlerts(d, timestamp)
  \o PhAlerts(d, timestamp)
  \o ScarcityAlerts(d, timestamp)
  \o ConsumptionAlerts(d, timestamp)
  \o TrendAlerts(d, h, timestamp)

generateAlerts(d, h, timestamp) ==
  WaterLevelAlerts(d, timestamp)
  \o DepletionAlerts(d, timestamp)
  \o RainfallAlerts(d, timestamp)
  \o PhAlerts(d, timestamp)
  \o ConsumptionAlerts(d, timestamp)
  \o ScarcityAlerts(d, timestamp)
  \o TrendAlerts(d, h, timestamp)

---------------------------------------------------------------------------
(* generateGovUpdates: five updates written from the latest record. The    *)
(* body of an update holds the values and the text chosen for it.          *)

\* locationData[locationData.length - 1]: undefined for an empty array.
LatestOf(ld) ==
  IF Len(ld.a) = 0 THEN Undefined ELSE ld.a[Len(ld.a)]

\* const updates = [ ... ]
GovUpdatesFor(latest, today) ==
  << [ id       |-> 1,
       title    |-> "Groundwater Status Report",
       body     |-> <<latest.location, latest.groundwaterLevel, latest.depletionRate,
                      latest.scarcityLevel>>,
       date     |-> today,
       source   |-> "Central Ground Water Board",
       priority |-> IF \/ StrictEq(latest.scarcityLevel, Str("Severe"))
                       \/ StrictEq(latest.scarcityLevel, Str("Extreme"))
                    THEN "high" ELSE "normal" ],
     [ id       |-> 2,
       title    |-> "Rainfall Monitoring Update",
       body     |-> <<latest.rainfall,
                      IF JsLt(latest.rainfall, Num(700))
                      THEN Str("Below normal levels. Drought alert issued.")
                      ELSE Str("Within normal range.")>>,
       date     |-> today,
       source   |-> "India Meteorological Department",
       priority |-> IF JsLt(latest.rainfall, Num(700)) THEN "high" ELSE "normal" ],
     [ id       |-> 3,
       title    |-> "Water Quality Assessment",
       body     |-> <<latest.ph,
                      IF JsGe(latest.ph, Num(65)) /\ JsLe(latest.ph, Num(80))
                      THEN Str("Water quality is within acceptable BIS standards.")
                      ELSE Str("Water quality needs attention.")>>,
       date     |-> today,
       source   |-> "State Pollution Control Board",
       priority |-> "normal" ],
     [ id       |-> 4,
       title    |-> "Usage Distribution Report",
       body     |-> <<latest.agriculturalUsage, latest.industrialUsage,
                      latest.householdUsage, latest.consumption>>,
       date     |-> today,
       source   |-> "Nashik District Water Authority",
       priority |-> "normal" ],
     [ id       |-> 5,
       title    |-> "Jal Shakti Abhiyan Advisory",
       body     |-> <<latest.location,
                      IF \/ StrictEq(latest.scarcityLevel, Str("High"))
                         \/ StrictEq(latest.scarcityLevel, Str("Severe"))
                      THEN Str("marked for priority intervention. Community rainwater harvesting programs recommended.")
                      ELSE Str("under regular monitoring. Continue existing conservation measures.")>>,
       date     |-> today,
       source   |-> "Ministry of Jal Shakti",
       priority |-> IF \/ StrictEq(latest.scarcityLevel, Str("High"))
                       \/ StrictEq(latest.scarcityLevel, Str("Severe"))
                    THEN "high" ELSE "normal" ] >>

\* Nothing returned unless the array holds at least two records.
generateGovUpdatesFromTwo(ld, today) ==
  IF Len(ld.a) < 2 THEN << >>
  ELSE GovUpdatesFor(LatestOf(ld), today)

\* if (!latest) return []; ... return updates;
generateGovUpdates(ld, today) ==
  LET latest == LatestOf(ld)
  IN  IF latest = Undefined THEN << >> ELSE GovUpdatesFor(latest, today)

---------------------------------------------------------------------------
(* TrendBadge, in its two versions. The change is kept as the fraction     *)
(* num / den in percent, or as the infinity or NaN a division by 0 gives.  *)

\* return null
NoBadge ==
  [ rendered |-> FALSE, change |-> Undefined, isUp |-> FALSE, isNeutral |-> FALSE,
    isGood |-> FALSE ]

\* ((current - previous) / Math.abs(previous)) * 100; null counts as 0.
PercentChange(current, previous) ==
  LET cur  == ToNumber(current)
      prev == ToNumber(previous)
      den  == IF prev < 0 THEN 0 - prev ELSE prev
  IN  IF den # 0 THEN [kind |-> "finite", num |-> 100 * (cur - prev), den |-> den]
      ELSE IF cur = 0 THEN [kind |-> "nan", num |-> 0, den |-> 0]
      ELSE [kind |-> "infinity", num |-> IF cur > 0 THEN 1 ELSE 0 - 1, den |-> 0]

\* The body of TrendBadge after its guards: change, isUp, isNeutral, isGood
\* and the element returned.
BadgeFor(current, previous, invert) ==
  LET change    == PercentChange(current, previous)
      isUp      == change.kind # "nan" /\ change.num > 0
      isNeutral == /\ change.kind = "finite"
                   /\ (IF change.num < 0 THEN 0 - change.num ELSE change.num) < change.den
      isGood    == IF invert THEN ~isUp ELSE isUp
  IN  [ rendered |-> TRUE, change |-> change, isUp |-> isUp, isNeutral |-> isNeutral,
        isGood |-> isGood ]

\* if (current === undefined || previous === undefined || previous === undefined)
\*   return null;  if (previous === 0) return null;
TrendBadge002(current, previous, invert) ==
  IF \/ StrictEq(current, Undefined)
     \/ StrictEq(previous, Undefined)
     \/ StrictEq(previous, Undefined)
  THEN NoBadge
  ELSE IF StrictEq(previous, Num(0)) THEN NoBadge
  ELSE BadgeFor(current, previous, invert)

\* if (current == null || previous == null) return null;
\* if (previous === 0) return null;
TrendBadge003(current, previous, invert) ==
  IF current \in {Undefined, Null} \/ previous \in {Undefined, Null} THEN NoBadge
  ELSE IF StrictEq(previous, Num(0)) THEN NoBadge
  ELSE BadgeFor(current, previous, invert)

\* No report is being saved. tried lists the save strategies begun by the
\* current call, written the strategies that wrote its file; files is what
\* the device's Cache and Documents directories hold.
ReportIdle ==
  [pc |-> "idle", native |-> FALSE, fileName |-> "", tried |-> << >>,
   written |-> << >>, files |-> {}]

\* const fileName = `JalRakshya_${locationName}_Report.pdf`
FileName(locationName) == <<"JalRakshya_", locationName, "_Report.pdf">>

---------------------------------------------------------------------------
(* MapComponent: the marker list and the locate flow. Latitudes and
   longitudes are in ten-thousandths of a degree. *)

\* ToBoolean of a coordinate, as the && of the marker filter applies it.
ToBoolean(v) ==
  /\ v.t \notin {"undefined", "null"}
  /\ v.t = "number" => v.n # 0
  /\ v.t = "string" => v.s # ""

LatLng(lat, lng) == [t |-> "object", lat |-> lat, lng |-> lng]

Coordinates(latitude, longitude) ==
  [t |-> "object", latitude |-> latitude, longitude |-> longitude]

\* const NASHIK_BOUNDS = [[19.35, 73.20], [20.90, 74.90]]
NASHIK_BOUNDS == << <<193500, 732000>>, <<209000, 749000>> >>

isInNashikExclusive(lat, lng) ==
  /\ JsGt(lat, Num(NASHIK_BOUNDS[1][1])) /\ JsLt(lat, Num(NASHIK_BOUNDS[2][1]))
  /\ JsGt(lng, Num(NASHIK_BOUNDS[1][2])) /\ JsLt(lng, Num(NASHIK_BOUNDS[2][2]))

isInNashik(lat, lng) ==
  /\ JsGe(lat, Num(NASHIK_BOUNDS[1][1])) /\ JsLe(lat, Num(NASHIK_BOUNDS[2][1]))
  /\ JsGe(lng, Num(NASHIK_BOUNDS[1][2])) /\ JsLe(lng, Num(NASHIK_BOUNDS[2][2]))

\* const lat = m.position ? m.position.lat : m.coordinates?.latitude
LatOf(m) ==
  IF Truthy(m.position) THEN m.position.lat
  ELSE IF Truthy(m.coordinates) THEN m.coordinates.latitude ELSE Undefined

\* const lng = m.position ? m.position.lng : m.coordinates?.longitude
LngOf(m) ==
  IF Truthy(m.position) THEN m.position.lng
  ELSE IF Truthy(m.coordinates) THEN m.coordinates.longitude ELSE Undefined

\* const defaultCenter = center || { lat: 19.9975, lng: 73.7898 }
DefaultCenter(center) ==
  IF Truthy(center) THEN center ELSE LatLng(Num(199975), Num(737898))

\* { ...m, position: [...], isSingle }: the entry keeps the fields of the
\* marker it was made from, with position replaced.
Entry(m, position, isSingle) ==
  [from |-> m, position |-> position, isSingle |-> isSingle]

\* The condition of markers.forEach: the component of line 169 asks for a
\* truthy latitude and longitude, that of line 609 also for the bounds.
Pushed(bounded, m) ==
  /\ ToBoolean(LatOf(m))
  /\ ToBoolean(LngOf(m))
  /\ bounded => isInNashik(LatOf(m), LngOf(m))

RECURSIVE PushMarkers(_, _, _)
PushMarkers(bounded, markers, allMarkers) ==
  IF markers = << >> THEN allMarkers
  ELSE LET m == Head(markers)
       IN  PushMarkers(bounded, Tail(markers),
             IF Pushed(bounded, m)
               THEN Append(allMarkers, Entry(m, <<LatOf(m), LngOf(m)>>, FALSE))
               ELSE allMarkers)

\* const allMarkers = []; if (singleMarker) push; markers.forEach(...)
AllMarkers(bounded, center, markers, singleMarker) ==
  LET defaultCenter == DefaultCenter(center)
  IN  PushMarkers(bounded, markers,
        IF Truthy(singleMarker)
          THEN << Entry(singleMarker, <<defaultCenter.lat, defaultCenter.lng>>, TRUE) >>
          ELSE << >>)

\* The map before it is mounted. outstanding counts the geolocation requests
\* whose callbacks have not run; flownTo is the last target of flyTo.
MapIdle ==
  [pc |-> "idle", bounded |-> FALSE, center |-> Undefined, markers |-> << >>,
   singleMarker |-> Undefined, allMarkers |-> << >>, geolocation |-> FALSE,
   mapRef |-> FALSE, gpsPosition |-> Null, gpsLoading |-> FALSE,
   gpsError |-> "", outstanding |-> 0, flownTo |-> Null]

\* The first render: useState(null), useState(false), useState('').
Mounted(bounded, center, markers, singleMarker, geolocation, mapRef) ==
  [MapIdle EXCEPT !.pc = "mounted", !.bounded = bounded, !.center = center,
                  !.markers = markers, !.singleMarker = singleMarker,
                  !.allMarkers = AllMarkers(bounded, center, markers, singleMarker),
                  !.geolocation = geolocation, !.mapRef = mapRef]

\* <button onClick={handleLocate} disabled={gpsLoading}>
LocateNeverDisabled(m) == FALSE

LocateDisabled(m) == m.gpsLoading

\* {gpsError && <p>{gpsError}</p>}
ShowsError(m) == m.gpsError # ""

\* {gpsPosition && !gpsError && <p>GPS found! ...</p>}
ShowsFound(m) == m.gpsPosition # Null /\ m.gpsError = ""

\* handleLocate
LocateClicked(m) ==
  IF ~m.geolocation
    THEN [m EXCEPT !.gpsError =
            IF m.bounded THEN "GPS not supported"
            ELSE "GPS not supported on this device"]
    ELSE [m EXCEPT !.gpsLoading = TRUE, !.gpsError = "",
                   !.outstanding = @ + 1]

\* The success callback of getCurrentPosition.
LocateSucceeded(m, pos) ==
  [m EXCEPT !.gpsPosition = pos, !.gpsLoading = FALSE, !.outstanding = @ - 1,
            !.flownTo = IF m.mapRef THEN <<pos.lat, pos.lng>> ELSE @]

\* The error callback of getCurrentPosition.
LocateFailed(m, code) ==
  [m EXCEPT !.gpsLoading = FALSE, !.outstanding = @ - 1,
            !.gpsError =
              IF code = 1
                THEN (IF m.bounded THEN "Permission denied"
                      ELSE "Location permission denied")
                ELSE (IF m.bounded THEN "GPS unavailable"
                      ELSE "Could not get GPS location")]

\* No badge has been rendered yet.
NotMounted ==
  [ version |-> "none", current |-> Undefined, previous |-> Undefined, invert |-> FALSE,
    out |-> NoBadge ]

---------------------------------------------------------------------------
(* The inputs of a call *)

\* The longest history a call is given.
MaxHist == 6

Location == "Nashik"

\* A numeric field is absent, null, or a number on either side of (and on)
\* the thresholds that read it.
Field(numbers) == {Undefined, Null} \cup {Num(n) : n \in numbers}

Records ==
  [ location         : {Location},
    groundwaterLevel : Field({1100, 1200, 1400, 1500}),
    depletionRate    : Field({4, 5, 7}),
    rainfall         : Field({600, 601, 700, 701}),
    ph               : Field({64, 65, 70, 80}),
    consumption      : Field({499, 500}),
    scarcityLevel    : {Undefined, Str("Low"), Str("Moderate"), Str("High"),
                        Str("Severe"), Str("Extreme")} ]

\* A record that crosses no threshold, and one that raises all six alerts.
QuietRecord ==
  [ location |-> Location, groundwaterLevel |-> Num(1100), depletionRate |-> Num(4),
    rainfall |-> Num(701), ph |-> Num(70), consumption |-> Num(499),
    scarcityLevel |-> Str("Low") ]

AlarmRecord ==
  [ location |-> Location, groundwaterLevel |-> Num(1500), depletionRate |-> Num(7),
    rainfall |-> Num(600), ph |-> Num(80), consumption |-> Num(500),
    scarcityLevel |-> Str("Severe") ]

\* Year-over-year steps of a metric: down, level, up.
Steps == {-1, 0, 1}

StepSeqs(n) == [1..(n - 1) -> Steps]

ConstSteps(n, d) == [j \in 1..(n - 1) |-> d]

RECURSIVE Walk(_, _, _)
\* The metric's value in the k-th year when it starts at `start` and moves
\* by steps[j] from year j to year j + 1.
Walk(start, steps, k) ==
  IF k <= 1 THEN start ELSE Walk(start, steps, k - 1) + steps[k - 1]

\* Water scores of a year: means of halves built from them differ by exactly
\* 10 (65 and 55), by 15 (80 and 65), and by 10 across thirds (215/3 and
\* 185/3).
ScoreValues == {55, 65, 80}

\* The order in which the caller hands over the years: ascending,
\* descending, or rotated by one.
Orders == {"asc", "desc", "rot"}

YearIndex(order, i, n) ==
  CASE order = "asc"  -> i
    [] order = "desc" -> n + 1 - i
    [] order = "rot"  -> (i % n) + 1

\* The water level moves by 4 cm a year over the first two years of a
\* history and by 1 cm a year after.
LevelSteps(gs) == [j \in DOMAIN gs |-> gs[j] * (IF j <= 2 THEN 4 ELSE 1)]

\* n yearly records, one per year from 2020 on, in the caller's order.
HistoryOf(n, gs, ds, rs, sc, order) ==
  Arr([ i \in 1..n |->
          LET k == YearIndex(order, i, n)
          IN  [ year             |-> 2019 + k,
                groundwaterLevel |-> Num(Walk(1000, LevelSteps(gs), k)),
                depletionRate    |-> Num(Walk(5, ds, k)),
                rainfall         |-> Num(Walk(700, rs, k)),
                waterScore       |-> sc[k] ] ])

\* Five years in which every metric worsens and the score falls.
DecliningHistory ==
  HistoryOf(5, ConstSteps(5, 1), ConstSteps(5, 1), ConstSteps(5, -1),
            <<80, 80, 65, 60, 60>>, "desc")

\* The most records a location's data holds in a call of generateGovUpdates.
MaxData == 2

\* The latest record of a location: every scarcity level, rainfall and pH on
\* either side of the limits the updates test, the other fields fixed.
GovRecords ==
  [ location          : {Location},
    groundwaterLevel  : {Num(1200)},
    depletionRate     : {Num(4)},
    rainfall          : Field({699, 700, 701}),
    ph                : Field({64, 65, 80, 81}),
    consumption       : {Num(499)},
    agriculturalUsage : {Num(300)},
    industrialUsage   : {Num(100)},
    householdUsage    : {Num(99)},
    scarcityLevel     : {Undefined, Str("Low"), Str("Moderate"), Str("High"),
                         Str("Severe"), Str("Extreme")} ]

\* An earlier year of the location: severe, dry and alkaline.
EarlierRecord ==
  [ location |-> Location, groundwaterLevel |-> Num(1500), depletionRate |-> Num(7),
    rainfall |-> Num(600), ph |-> Num(81), consumption |-> Num(500),
    agriculturalUsage |-> Num(300), industrialUsage |-> Num(100),
    householdUsage |-> Num(100), scarcityLevel |-> Str("Severe") ]

\* n records of a location, the last of them r.
LocationDataOf(n, r) == Arr([i \in 1..n |-> IF i = n THEN r ELSE EarlierRecord])

---------------------------------------------------------------------------
(* The state machine: the module is loaded and idle; a caller then calls   *)
(* generateAlerts(d, h), and the arguments and the returned list are kept. *)

\* const timestamp = new Date().toISOString() is read once per call.
InvokeThen(d, h, after) ==
  /\ UNCHANGED <<locationData, updates>>
  /\ UNCHANGED uiVars
  /\ alertsBefore' = alerts
  /\ given' = [data |-> d, history |-> h]
  /\ data' = d
  /\ history' = HistoryAfterCall(h)
  /\ alerts' = generateAlerts(d, h, now)
  /\ now' = now + 1
  /\ pc' = after

Invoke(d, h) == InvokeThen(d, h, "done")

Init ==
  /\ data = Undefined
  /\ history = Undefined
  /\ alerts = << >>
  /\ now = 1
  /\ pc = "idle"
  /\ given = [data |-> Undefined, history |-> Undefined]
  /\ locationData = Undefined
  /\ updates = << >>
  /\ alertsBefore = << >>
  /\ badge = NotMounted
  /\ report = ReportIdle
  /\ map = MapIdle

\* A call with any record, without a history or with one that raises every
\* trend alert.
Call ==
  /\ pc = "idle"
  /\ \E d \in Records, h \in {Undefined, DecliningHistory} : Invoke(d, h)

Next == Call

Spec == Init /\ [][Next]_vars

\* Calls with a quiet or an alarming record and no history at all
\* (undefined or null), or a history of up to MaxHist years in which one
\* metric moves freely while each of the other two is level or worsens every
\* year (the scores are level). With a history the record is the alarming
\* one when the other metrics worsen and the quiet one otherwise.
CallNoHistory ==
  /\ pc = "idle"
  /\ \E d \in {QuietRecord, AlarmRecord}, h \in {Undefined, Null} : Invoke(d, h)

CallMetricHistory ==
  /\ pc = "idle"
  /\ \E n \in 0..MaxHist, order \in Orders :
       \E m \in 1..3, f \in StepSeqs(n), a \in {0, 1}, b \in {0, 1} :
          Invoke(IF a = 1 THEN AlarmRecord ELSE QuietRecord,
                 HistoryOf(n,
                           IF m = 1 THEN f ELSE ConstSteps(n, a),
                           IF m = 2 THEN f ELSE ConstSteps(n, IF m = 1 THEN a ELSE b),
                           IF m = 3 THEN f ELSE ConstSteps(n, 0 - b),
                           [k \in 1..n |-> 80], order))

NextTrend == CallNoHistory \/ CallMetricHistory

SpecTrend == Init /\ [][NextTrend]_vars

\* Calls with a history of up to MaxHist years in which the scores move
\* freely while the metrics are all level or all worsening.
CallScoreHistory ==
  /\ pc = "idle"
  /\ \E n \in 0..MaxHist, order \in Orders :
       \E sc \in [1..n -> ScoreValues], a \in {0, 1} :
          Invoke(IF a = 1 THEN AlarmRecord ELSE QuietRecord,
                 HistoryOf(n, ConstSteps(n, a), ConstSteps(n, a),
                           ConstSteps(n, 0 - a), sc, order))

\* new Date().toLocaleDateString('en-IN') gives the day of the call.
InvokeGov(ld) ==
  /\ locationData' = ld
  /\ updates' = generateGovUpdates(ld, now)
  /\ now' = now + 1
  /\ pc' = "updated"
  /\ UNCHANGED <<data, history, alerts, given, alertsBefore>>
  /\ UNCHANGED uiVars

\* A call of generateGovUpdates with up to MaxData records of a location.
CallGov ==
  /\ pc = "idle"
  /\ \E n \in 0..MaxData, r \in GovRecords : InvokeGov(LocationDataOf(n, r))

NextGov == CallGov

SpecGov == Init /\ [][NextGov]_vars

NextHealth == CallScoreHistory

SpecHealth == Init /\ [][NextHealth]_vars

\* The values a badge is given: missing, zero, and numbers whose change is
\* on either side of 1 percent.
BadgeValues == {Undefined, Null} \cup {Num(n) : n \in {0 - 100, 0, 99, 100, 101, 102, 200}}

\* A TrendBadge of either version is rendered with some props.
RenderBadge ==
  /\ pc = "idle"
  /\ \E version \in {"part_002", "part_003"}, current \in BadgeValues,
        previous \in BadgeValues, invert \in BOOLEAN :
       badge' = [ version |-> version, current |-> current, previous |-> previous,
                  invert |-> invert,
                  out |-> IF version = "part_002"
                          THEN TrendBadge002(current, previous, invert)
                          ELSE TrendBadge003(current, previous, invert) ]
  /\ pc' = "rendered"
  /\ now' = now
  /\ UNCHANGED engineVars
  /\ UNCHANGED <<report, map>>

LocationNames == {"Nashik", "Igatpuri", "Sinnar"}

\* What the save of a report leaves alone.
reportFrame == <<now, pc, badge, map, engineVars>>

\* generateReport has drawn the pages and reaches the platform-aware save:
\* if (Capacitor.isNativePlatform()) { ... } else { pdf.save(fileName) }
BeginSave ==
  /\ report.pc \in {"idle", "done", "rejected"}
  /\ \E native \in BOOLEAN, locationName \in LocationNames :
       report' = [ pc |-> IF native THEN "cache" ELSE "web", native |-> native,
                   fileName |-> FileName(locationName), tried |-> << >>,
                   written |-> << >>, files |-> report.files ]
  /\ UNCHANGED reportFrame

\* Strategy 1, first half: Filesystem.writeFile to Directory.Cache; building
\* the base64 data or the write may throw.
CacheWrite ==
  /\ report.pc = "cache"
  /\ \/ report' = [report EXCEPT !.tried = Append(@, "Cache"),
                                  !.written = Append(@, "Cache"), !.pc = "share",
                                  !.files = @ \cup {<<"Cache", report.fileName>>}]
     \/ report' = [report EXCEPT !.tried = Append(@, "Cache"), !.pc = "documents"]
  /\ UNCHANGED reportFrame

\* Strategy 1, second half: Share.share of the written file; a rejection
\* (the share sheet dismissed or unavailable) is caught like a failed write.
ShareFile ==
  /\ report.pc = "share"
  /\ \/ report' = [report EXCEPT !.pc = "done"]
     \/ report' = [report EXCEPT !.pc = "documents"]
  /\ UNCHANGED reportFrame

\* Strategy 2: Filesystem.writeFile to Directory.Documents, then alert(...).
DocumentsWrite ==
  /\ report.pc = "documents"
  /\ \/ report' = [report EXCEPT !.tried = Append(@, "Documents"),
                                  !.written = Append(@, "Documents"), !.pc = "done",
                                  !.files = @ \cup {<<"Documents", report.fileName>>}]
     \/ report' = [report EXCEPT !.tried = Append(@, "Documents"), !.pc = "blob"]
  /\ UNCHANGED reportFrame

\* Strategy 3: a blob URL and a click on a download link.
BlobDownload ==
  /\ report.pc = "blob"
  /\ \/ report' = [report EXCEPT !.tried = Append(@, "Blob"),
                                  !.written = Append(@, "Blob"), !.pc = "done"]
     \/ report' = [report EXCEPT !.tried = Append(@, "Blob"), !.pc = "last"]
  /\ UNCHANGED reportFrame

\* Strategy 4, and the only one in a browser: pdf.save(fileName); if it
\* throws nothing catches it and the promise of generateReport rejects.
PdfSave ==
  /\ report.pc \in {"last", "web"}
  /\ \/ report' = [report EXCEPT !.tried = Append(@, "jsPDF"),
                                  !.written = Append(@, "jsPDF"), !.pc = "done"]
     \/ report' = [report EXCEPT !.tried = Append(@, "jsPDF"), !.pc = "rejected"]
  /\ UNCHANGED reportFrame

NextReport ==
  BeginSave \/ CacheWrite \/ ShareFile \/ DocumentsWrite \/ BlobDownload \/ PdfSave

SpecReport == Init /\ [][NextReport]_vars

\* What the map leaves alone.
mapFrame == <<now, pc, badge, report, engineVars>>

MaxMarkers == 2

\* Markers with a position, at and around each bound.
PositionMarkers ==
  { [t |-> "object", location |-> "Nashik", position |-> LatLng(Num(lat), Num(740000)),
     coordinates |-> Undefined] : lat \in {0, 193499, 193500, 209000, 209001} }
  \cup
  { [t |-> "object", location |-> "Niphad", position |-> LatLng(Num(200000), Num(lng)),
     coordinates |-> Undefined] : lng \in {0, 731999, 732000, 749000, 749001} }

\* Markers with coordinates instead, with a part missing, or with neither.
CoordinateMarkers ==
  { [t |-> "object", location |-> "Sinnar", position |-> Undefined,
     coordinates |-> Coordinates(Num(199000), Num(739900))],
    [t |-> "object", location |-> "Yeola", position |-> Undefined,
     coordinates |-> Coordinates(Undefined, Num(745000))],
    [t |-> "object", location |-> "Peth", position |-> LatLng(Num(202500), Undefined),
     coordinates |-> Coordinates(Num(202500), Num(735000))],
    [t |-> "object", location |-> "Kalwan", position |-> Undefined, coordinates |-> Undefined] }

MarkerValues == PositionMarkers \cup CoordinateMarkers

MarkerLists == UNION { [1..n -> MarkerValues] : n \in 0..MaxMarkers }

\* A single marker lying outside the district, to tell its position from the
\* centre it is drawn at.
SingleMarkers ==
  { Undefined,
    [t |-> "object", location |-> "Mumbai", position |-> LatLng(Num(190760), Num(728777)),
     coordinates |-> Undefined] }

Centers == { Undefined, LatLng(Num(201000), Num(741000)) }

\* The component is rendered with its props.
MountMap ==
  /\ map.pc = "idle"
  /\ \E bounded \in BOOLEAN, center \in Centers, markers \in MarkerLists,
        singleMarker \in SingleMarkers :
       map' = Mounted(bounded, center, markers, singleMarker, TRUE, TRUE)
  /\ UNCHANGED mapFrame

NextMarkers == MountMap

SpecMarkers == Init /\ [][NextMarkers]_vars

\* The component is rendered without markers, on a device with or without
\* geolocation, and its map is or is not ready when a position arrives.
MountBare ==
  /\ map.pc = "idle"
  /\ \E bounded \in BOOLEAN, geolocation \in BOOLEAN, mapRef \in BOOLEAN :
       map' = Mounted(bounded, Undefined, << >>, Undefined, geolocation, mapRef)
  /\ UNCHANGED mapFrame

\* A click on the locate button, which is disabled while gpsLoading.
HandleLocate ==
  /\ map.pc = "mounted"
  /\ ~LocateDisabled(map)
  /\ map' = LocateClicked(map)
  /\ UNCHANGED mapFrame

Positions ==
  { [lat |-> Num(lat), lng |-> Num(737898), accuracy |-> accuracy] :
      lat \in {199975, 185204}, accuracy \in {Undefined, Num(5), Num(48)} }

\* The device answers an outstanding request with a position.
PositionFound ==
  /\ map.pc = "mounted"
  /\ map.outstanding > 0
  /\ \E pos \in Positions : map' = LocateSucceeded(map, pos)
  /\ UNCHANGED mapFrame

\* The device answers an outstanding request with PERMISSION_DENIED (1),
\* POSITION_UNAVAILABLE (2) or TIMEOUT (3).
PositionError ==
  /\ map.pc = "mounted"
  /\ map.outstanding > 0
  /\ \E code \in 1..3 : map' = LocateFailed(map, code)
  /\ UNCHANGED mapFrame

NextLocate == MountBare \/ HandleLocate \/ PositionFound \/ PositionError

SpecLocate == Init /\ [][NextLocate]_vars

NextBadge == RenderBadge

SpecBadge == Init /\ [][NextBadge]_vars

\* The caller calls generateAlerts once more with the objects of the call
\* that has returned; the list returned before is kept in alertsBefore.
CallAgain ==
  /\ pc = "done"
  /\ InvokeThen(data, history, "again")

\* A call with a history of scores, and the same call repeated.
NextRepeat == CallScoreHistory \/ CallAgain

SpecRepeat == Init /\ [][NextRepeat]_vars

\* The caller, having the updates of a location, asks for the alerts of its
\* latest record.
AlertLatest ==
  /\ pc = "updated"
  /\ Len(locationData.a) >= 1
  /\ Invoke(LatestOf(locationData), Undefined)

\* generateGovUpdates and then generateAlerts for the same latest record.
NextBoth == CallGov \/ AlertLatest

SpecBoth == Init /\ [][NextBoth]_vars

\* All families of calls.
NextAll == Next \/ NextTrend \/ NextHealth

SpecAll == Init /\ [][NextAll]_vars

---------------------------------------------------------------------------
(* Properties of the alerts a call returned *)

Done == pc = "done"

IsNumber(v) == v.t = "number"

Absent(v) == v.t \in {"undefined", "null"}

\* The positions of the returned alerts of a category, and of a category
\* and type.
InCategory(category) == {i \in 1..Len(alerts) : alerts[i].category = category}

OfType(category, type) == {i \in InCategory(category) : alerts[i].type = type}

HasTitle(title) == \E i \in 1..Len(alerts) : alerts[i].title = title

\* C1: a numeric groundwaterLevel of 15 m or more yields exactly one Water
\* Level alert, of type critical; from 12 m up to but not including 15 m
\* exactly one, of type warning; below 12 m none.
C1_WaterLevelThresholds ==
  Done /\ IsNumber(data.groundwaterLevel) =>
    LET g == data.groundwaterLevel.n
    IN  /\ g >= 1500 =>
             /\ Cardinality(OfType("Water Level", "critical")) = 1
             /\ Cardinality(InCategory("Water Level")) = 1
        /\ (1200 <= g /\ g < 1500) =>
             /\ Cardinality(OfType("Water Level", "warning")) = 1
             /\ Cardinality(InCategory("Water Level")) = 1
        /\ g < 1200 => InCategory("Water Level") = {}

\* A level of exactly 15 has raised the critical alert.
C1_Witness ==
  /\ Done
  /\ data.groundwaterLevel = Num(1500)
  /\ OfType("Water Level", "critical") # {}

\* C2: a numeric depletionRate of 7 or more yields exactly one Depletion
\* alert, of type critical; from 5 up to but not including 7 exactly one, of
\* type warning; below 5 none; the two types never occur together.
C2_DepletionThresholds ==
  /\ Done /\ IsNumber(data.depletionRate) =>
       LET r == data.depletionRate.n
       IN  /\ r >= 7 =>
                /\ Cardinality(OfType("Depletion", "critical")) = 1
                /\ Cardinality(InCategory("Depletion")) = 1
           /\ (5 <= r /\ r < 7) =>
                /\ Cardinality(OfType("Depletion", "warning")) = 1
                /\ Cardinality(InCategory("Depletion")) = 1
           /\ r < 5 => InCategory("Depletion") = {}
  /\ Done => OfType("Depletion", "critical") = {} \/ OfType("Depletion", "warning") = {}

\* A rate of exactly 7 has raised the critical alert alone.
C2_Witness ==
  /\ Done
  /\ data.depletionRate = Num(7)
  /\ OfType("Depletion", "critical") # {}
  /\ OfType("Depletion", "warning") = {}

\* C3: a numeric rainfall of 600 or less yields exactly one Rainfall alert,
\* of type critical; above 600 up to and including 700 exactly one, of type
\* warning; above 700 none; the two types never occur together.
C3_RainfallThresholds ==
  /\ Done /\ IsNumber(data.rainfall) =>
       LET r == data.rainfall.n
       IN  /\ r <= 600 =>
                /\ Cardinality(OfType("Rainfall", "critical")) = 1
                /\ Cardinality(InCategory("Rainfall")) = 1
           /\ (600 < r /\ r <= 700) =>
                /\ Cardinality(OfType("Rainfall", "warning")) = 1
                /\ Cardinality(InCategory("Rainfall")) = 1
           /\ r > 700 => InCategory("Rainfall") = {}
  /\ Done => OfType("Rainfall", "critical") = {} \/ OfType("Rainfall", "warning") = {}

\* A rainfall of exactly 700 has raised the warning.
C3_Witness ==
  /\ Done
  /\ data.rainfall = Num(700)
  /\ OfType("Rainfall", "warning") # {}

\* C4 (as claimed): a field that is undefined or null never raises the alert
\* of its metric.
C4_AbsentFieldRaisesNoAlert ==
  Done =>
    /\ Absent(data.groundwaterLevel) => InCategory("Water Level") = {}
    /\ Absent(data.depletionRate) => InCategory("Depletion") = {}
    /\ Absent(data.rainfall) => InCategory("Rainfall") = {}
    /\ Absent(data.ph) => InCategory("Water Quality") = {}
    /\ Absent(data.consumption) => InCategory("Consumption") = {}

\* C5: a numeric pH of 8.0 or more, or of 6.5 or less, yields exactly one
\* Water Quality alert, of type warning; a pH strictly between yields none;
\* no Water Quality alert is critical.  (pH in tenths.)
C5_PhThresholds ==
  /\ Done /\ IsNumber(data.ph) =>
       LET p == data.ph.n
       IN  /\ (p >= 80 \/ p <= 65) =>
                /\ Cardinality(OfType("Water Quality", "warning")) = 1
                /\ Cardinality(InCategory("Water Quality")) = 1
           /\ (65 < p /\ p < 80) => InCategory("Water Quality") = {}
  /\ Done => OfType("Water Quality", "critical") = {}

\* A pH of exactly 6.5 has raised the warning.
C5_Witness ==
  /\ Done
  /\ data.ph = Num(65)
  /\ OfType("Water Quality", "warning") # {}

\* C6: scarcityLevel Severe or Extreme yields exactly one Scarcity alert, of
\* type critical and without a threshold field; any other level, or none,
\* yields no Scarcity alert.
C6_ScarcityLevels ==
  Done =>
    IF data.scarcityLevel \in {Str("Severe"), Str("Extreme")}
    THEN /\ Cardinality(InCategory("Scarcity")) = 1
         /\ \A i \in InCategory("Scarcity") :
               /\ alerts[i].type = "critical"
               /\ "threshold" \notin DOMAIN alerts[i]
    ELSE InCategory("Scarcity") = {}

\* Extreme has raised the alert.
C6_Witness ==
  /\ Done
  /\ data.scarcityLevel = Str("Extreme")
  /\ OfType("Scarcity", "critical") # {}

\* C7: a numeric consumption of 500 or more yields exactly one Consumption
\* alert, of type info; below 500 none; no Consumption alert is a warning or
\* critical.
C7_ConsumptionThreshold ==
  /\ Done /\ IsNumber(data.consumption) =>
       LET c == data.consumption.n
       IN  /\ c >= 500 =>
                /\ Cardinality(OfType("Consumption", "info")) = 1
                /\ Cardinality(InCategory("Consumption")) = 1
           /\ c < 500 => InCategory("Consumption") = {}
  /\ Done => /\ OfType("Consumption", "warning") = {}
             /\ OfType("Consumption", "critical") = {}

\* A consumption of exactly 500 has raised the info alert.
C7_Witness ==
  /\ Done
  /\ data.consumption = Num(500)
  /\ OfType("Consumption", "info") # {}

\* The place of an alert in the fixed order: its category, and among Trend
\* alerts its title.
OrderKey(a) ==
  CASE a.category = "Water Level"   -> 1
    [] a.category = "Depletion"     -> 2
    [] a.category = "Rainfall"      -> 3
    [] a.category = "Water Quality" -> 4
    [] a.category = "Consumption"   -> 5
    [] a.category = "Scarcity"      -> 6
    [] a.category = "Trend" ->
         CASE a.title = "Sustained Water Level Decline"  -> 7
           [] a.title = "Accelerating Depletion Trend"   -> 8
           [] a.title = "Declining Rainfall Pattern"     -> 9
           [] a.title = "Overall Water Health Declining" -> 10

\* C8: the returned alerts are in the order Water Level, Depletion,
\* Rainfall, Water Quality, Consumption, Scarcity, then the Trend alerts in
\* the order water-level decline, depletion increase, rainfall decline,
\* health decline.
C8_FixedOrder ==
  Done =>
    \A i, j \in 1..Len(alerts) :
       i < j => OrderKey(alerts[i]) < OrderKey(alerts[j])

\* All six point-in-time alerts and all four trend alerts were returned.
C8_Witness == Done /\ Len(alerts) = 10

\* C9: without a history, or with fewer than 3 records, no Trend alert is
\* returned.
C9_NoScanBelowThree ==
  Done /\ (history.t # "array" \/ Len(history.a) < 3) => InCategory("Trend") = {}

\* Two years in which the level rose and the score fell by more than 10,
\* and no Trend alert.
C9_Witness ==
  /\ Done
  /\ history.t = "array"
  /\ Len(history.a) = 2
  /\ \E i, j \in 1..2 :
        /\ history.a[i].year < history.a[j].year
        /\ history.a[j].groundwaterLevel.n > history.a[i].groundwaterLevel.n
        /\ history.a[j].waterScore < history.a[i].waterScore - 10
  /\ InCategory("Trend") = {}

\* Every later year of the history is worse than every earlier one.
AllPairsRise(field) ==
  \A i, j \in 1..Len(history.a) :
     history.a[i].year < history.a[j].year => history.a[j][field].n > history.a[i][field].n

AllPairsDrop(field) ==
  \A i, j \in 1..Len(history.a) :
     history.a[i].year < history.a[j].year => history.a[j][field].n < history.a[i][field].n

\* C10 (as claimed): with exactly 3 records, a streak alert is returned iff
\* all pairwise year-over-year steps of its metric move in the bad direction.
C10_ThreeRecordStreak ==
  Done /\ history.t = "array" /\ Len(history.a) = 3 =>
    /\ HasTitle("Sustained Water Level Decline") <=> AllPairsRise("groundwaterLevel")
    /\ HasTitle("Accelerating Depletion Trend") <=> AllPairsRise("depletionRate")
    /\ HasTitle("Declining Rainfall Pattern") <=> AllPairsDrop("rainfall")

---------------------------------------------------------------------------
(* The history read in the order of its years, and the run of worsening    *)
(* steps that ends at its latest year                                      *)

HasHistory == history.t = "array"

HistLen == Len(history.a)

\* The records in the order of their years (the years are unique).
Chronicle ==
  LET earlier == [i \in 1..HistLen |->
                    Cardinality({j \in 1..HistLen : history.a[j].year < history.a[i].year})]
  IN  [k \in 1..HistLen |-> history.a[CHOOSE i \in 1..HistLen : earlier[i] = k - 1]]

\* The step into year k of the chronicle c worsens the metric: dir is 1
\* where a rise is bad, -1 where a fall is bad.
Worsens(c, field, dir, k) == dir * (c[k][field].n - c[k - 1][field].n) > 0

\* The length of the run of worsening steps that ends at the latest year.
TrailingRun(c, field, dir) ==
  CHOOSE k \in 0..(Len(c) - 1) :
     /\ \A j \in 1..k : Worsens(c, field, dir, Len(c) + 1 - j)
     /\ k < Len(c) - 1 => ~Worsens(c, field, dir, Len(c) - k)

\* The returned alerts of a title.
TitledAlerts(title) == {i \in 1..Len(alerts) : alerts[i].title = title}

\* C11: a streak alert is returned iff the run of worsening steps that ends
\* at the latest year has length 3 or more; an earlier run that a
\* non-worsening step follows raises nothing.
C11_TrailingRunDecides ==
  Done /\ HasHistory /\ HistLen >= 3 =>
    LET c == Chronicle
    IN  /\ HasTitle("Sustained Water Level Decline") <=> TrailingRun(c, "groundwaterLevel", 1) >= 3
        /\ HasTitle("Accelerating Depletion Trend") <=> TrailingRun(c, "depletionRate", 1) >= 3
        /\ HasTitle("Declining Rainfall Pattern") <=> TrailingRun(c, "rainfall", -1) >= 3

\* The level rose three years running and then did not: no alert.
C11_Witness ==
  /\ Done /\ HasHistory /\ HistLen = 5
  /\ \A k \in 2..4 : Worsens(Chronicle, "groundwaterLevel", 1, k)
  /\ ~Worsens(Chronicle, "groundwaterLevel", 1, 5)
  /\ ~HasTitle("Sustained Water Level Decline")

\* C12: n >= 4 records whose groundwaterLevel rises every year yield the
\* Sustained Water Level Decline alert with value n - 1.
C12_FullRiseValue ==
  Done /\ HasHistory /\ HistLen >= 4 =>
    LET c == Chronicle
    IN  (\A k \in 2..HistLen : Worsens(c, "groundwaterLevel", 1, k)) =>
          /\ TitledAlerts("Sustained Water Level Decline") # {}
          /\ \A i \in TitledAlerts("Sustained Water Level Decline") :
                alerts[i].value = Num(HistLen - 1)

\* Five years of rising level have raised the alert with value 4.
C12_Witness ==
  /\ Done /\ HasHistory /\ HistLen = 5
  /\ \A k \in 2..5 : Worsens(Chronicle, "groundwaterLevel", 1, k)
  /\ \E i \in TitledAlerts("Sustained Water Level Decline") : alerts[i].value = Num(4)

\* C13: only strict changes count: a level step ends the run, so no streak
\* alert is returned when the last step is level, and the value of a streak
\* alert is the number of worsening steps after the last level or reversed
\* step.
C13_StrictSteps ==
  Done /\ HasHistory /\ HistLen >= 3 =>
    LET c == Chronicle
        n == HistLen
    IN  /\ \A i \in TitledAlerts("Sustained Water Level Decline") :
              alerts[i].value = Num(TrailingRun(c, "groundwaterLevel", 1))
        /\ \A i \in TitledAlerts("Accelerating Depletion Trend") :
              alerts[i].value = Num(TrailingRun(c, "depletionRate", 1))
        /\ \A i \in TitledAlerts("Declining Rainfall Pattern") :
              alerts[i].value = Num(TrailingRun(c, "rainfall", -1))
        /\ c[n].groundwaterLevel = c[n - 1].groundwaterLevel
             => ~HasTitle("Sustained Water Level Decline")
        /\ c[n].depletionRate = c[n - 1].depletionRate
             => ~HasTitle("Accelerating Depletion Trend")
        /\ c[n].rainfall = c[n - 1].rainfall
             => ~HasTitle("Declining Rainfall Pattern")

\* A rise, a level year, then three rises: the alert reports 3, not 5.
C13_Witness ==
  /\ Done /\ HasHistory /\ HistLen = 6
  /\ LET c == Chronicle
     IN  /\ Worsens(c, "groundwaterLevel", 1, 2)
         /\ c[3].groundwaterLevel = c[2].groundwaterLevel
         /\ \A k \in 4..6 : Worsens(c, "groundwaterLevel", 1, k)
  /\ \E i \in TitledAlerts("Sustained Water Level Decline") : alerts[i].value = Num(3)

C15_InputsUnchanged ==
  Done => history = given.history /\ data = given.data

\* A history given out of year order has been scanned and is still in the
\* caller's order.
C15_Witness ==
  /\ Done /\ HasHistory /\ HistLen >= 3
  /\ history.a # SortByYear(history.a)
  /\ history = given.history
  /\ HasTitle("Sustained Water Level Decline")

\* The Trend alerts of a returned list, in order, as type, title and value.
TrendShape(list) ==
  LET trend == SelectSeq(list, LAMBDA a : a.category = "Trend")
  IN  [i \in 1..Len(trend) |-> <<trend[i].type, trend[i].title, trend[i].value>>]

\* The same records in three other orders: by year, by year backwards, and
\* with the first two exchanged.
Reorderings ==
  LET c == Chronicle
      n == HistLen
  IN  { c,
        [k \in 1..n |-> c[n + 1 - k]],
        [k \in 1..n |-> history.a[IF k = 1 /\ n >= 2 THEN 2
                                  ELSE IF k = 2 THEN 1 ELSE k]] }

\* C16: the Trend alerts do not depend on the order in which the caller
\* gives the history: the same records in another order yield Trend alerts
\* of the same types, titles and values in the same order.
C16_OrderIndependent ==
  Done /\ HasHistory =>
    \A a \in Reorderings :
       TrendShape(generateAlerts(data, Arr(a), now)) = TrendShape(alerts)

\* A history given out of year order for which streak alerts and the health
\* alert were returned.
C16_Witness ==
  /\ Done /\ HasHistory /\ HistLen >= 4
  /\ history.a # Chronicle
  /\ HasTitle("Sustained Water Level Decline")
  /\ HasTitle("Overall Water Health Declining")

\* The water scores of the history in the order of its years.
ScoresByYear == [k \in 1..HistLen |-> Chronicle[k].waterScore]

\* The sum of the scores of the years from to to.
ScoreSum(scores, from, to) == SumSeq([k \in 1..(to + 1 - from) |-> scores[from + k - 1]])

\* C17: the scores by year are split into the first floor(n/2) scores and
\* the remaining n - floor(n/2) scores: the halves follow one another without
\* gap or overlap, for odd n the middle score is the first of the second
\* half, and the means the health alert reports are those of these halves.
C17_FloorSplit ==
  Done /\ HasHistory /\ HistLen >= 3 =>
    LET scores == ScoresByYear
        n      == HistLen
        half   == n \div 2
    IN  /\ Len(FirstHalf(scores)) = half
        /\ Len(SecondHalf(scores)) = n - half
        /\ FirstHalf(scores) \o SecondHalf(scores) = scores
        /\ n % 2 = 1 => SecondHalf(scores)[1] = scores[(n + 1) \div 2]
        /\ \A i \in TitledAlerts("Overall Water Health Declining") :
              /\ alerts[i].message[2] = Num(MathRound(ScoreSum(scores, 1, half), half))
              /\ alerts[i].message[3] = Num(MathRound(ScoreSum(scores, half + 1, n), n - half))

\* Five years whose middle score changes the means: the alert reports the
\* means of the first two and of the last three scores.
C17_Witness ==
  /\ Done /\ HasHistory /\ HistLen = 5
  /\ LET scores == ScoresByYear
     IN  /\ MathRound(ScoreSum(scores, 1, 2), 2) # MathRound(ScoreSum(scores, 1, 3), 3)
         /\ \E i \in TitledAlerts("Overall Water Health Declining") :
               /\ alerts[i].message[2] = Num(MathRound(ScoreSum(scores, 1, 2), 2))
               /\ alerts[i].message[3] = Num(MathRound(ScoreSum(scores, 3, 5), 3))

\* C18 (as claimed): the Overall Water Health Declining alert, a Trend
\* warning, is returned iff the mean of the second half is below the mean of
\* the first half by more than 10, so not at a difference of exactly -10;
\* its value is the rounded difference of the means and is negative.
C18_HealthDeclineThreshold ==
  Done /\ HasHistory /\ HistLen >= 3 =>
    LET scores    == ScoresByYear
        n         == HistLen
        half      == n \div 2
        sumFirst  == ScoreSum(scores, 1, half)
        sumSecond == ScoreSum(scores, half + 1, n)
    IN  /\ HasTitle("Overall Water Health Declining")
             <=> sumSecond * half < (sumFirst - 10 * half) * (n - half)
        /\ \A i \in TitledAlerts("Overall Water Health Declining") :
              /\ alerts[i].type = "warning"
              /\ alerts[i].category = "Trend"
              /\ alerts[i].value = Num(MathRound(sumSecond * half - sumFirst * (n - half),
                                                 half * (n - half)))
              /\ alerts[i].value.n < 0

---------------------------------------------------------------------------
(* generateGovUpdates *)

\* A call of generateGovUpdates has returned.
Updated == pc = "updated"

GovTitles ==
  << "Groundwater Status Report", "Rainfall Monitoring Update", "Water Quality Assessment",
     "Usage Distribution Report", "Jal Shakti Abhiyan Advisory" >>

\* Five updates with ids 1 to 5 and the five titles, in this order.
FiveUpdates ==
  /\ Len(updates) = 5
  /\ \A i \in 1..5 : updates[i].id = i /\ updates[i].title = GovTitles[i]

\* C19 (as claimed): generateGovUpdates always returns exactly 5 updates,
\* with ids 1 to 5 in order, whatever the input data.
C19_AlwaysFiveUpdates == Updated => FiveUpdates

\* C19 (amended): generateGovUpdates returns exactly 5 updates, with ids 1 to
\* 5 in order, whenever locationData holds at least one record, whatever the
\* values of the latest record; for an empty locationData it returns none.
C19_FiveUpdatesForLatest ==
  Updated =>
    IF Len(locationData.a) >= 1 THEN FiveUpdates ELSE updates = << >>

\* Five updates for a latest record without scarcity level, rainfall and pH.
C19_Witness ==
  /\ Updated /\ Len(locationData.a) >= 1
  /\ LET latest == locationData.a[Len(locationData.a)]
     IN  /\ latest.scarcityLevel = Undefined
         /\ latest.rainfall = Undefined
         /\ latest.ph = Undefined
  /\ FiveUpdates

\* C20 (as claimed): the Status Report (id 1) and the Jal Shakti Advisory
\* (id 5) have priority high when scarcityLevel is Severe, Extreme or High
\* and normal otherwise; the Rainfall update (id 2) has priority high exactly
\* when rainfall is below 700; the Water Quality and the Usage update always
\* have priority normal.
C20_Priorities ==
  Updated /\ Len(locationData.a) >= 1 =>
    LET latest == locationData.a[Len(locationData.a)]
        scarce == latest.scarcityLevel \in {Str("Severe"), Str("Extreme"), Str("High")}
        dry    == IsNumber(latest.rainfall) /\ latest.rainfall.n < 700
    IN  /\ updates[1].priority = IF scarce THEN "high" ELSE "normal"
        /\ updates[5].priority = IF scarce THEN "high" ELSE "normal"
        /\ updates[2].priority = IF dry THEN "high" ELSE "normal"
        /\ updates[3].priority = "normal"
        /\ updates[4].priority = "normal"

---------------------------------------------------------------------------
(* Repeated calls of generateAlerts *)

\* The same call has been made a second time.
Again == pc = "again"

\* An alert without its timestamp.
Untimed(a) == [f \in (DOMAIN a) \ {"timestamp"} |-> a[f]]

---------------------------------------------------------------------------
(* Bounds of the scan's arithmetic *)

StreakTitles ==
  {"Sustained Water Level Decline", "Accelerating Depletion Trend",
   "Declining Rainfall Pattern"}

\* C22: whenever the trend scan runs (a history of 3 or more records), both
\* halves of the scores are non-empty, so neither mean divides by zero.
C22_HalvesNonEmpty ==
  Done /\ HasHistory /\ HistLen >= 3 =>
    /\ Len(FirstHalf(ScoresByYear)) >= 1
    /\ Len(SecondHalf(ScoresByYear)) >= 1

\* The shortest scanned history, 3 records, split into 1 and 2 scores whose
\* means raised the health alert.
C22_Witness ==
  /\ Done /\ HasHistory /\ HistLen = 3
  /\ Len(FirstHalf(ScoresByYear)) = 1
  /\ HasTitle("Overall Water Health Declining")

C28_TotalRiseOverStreak ==
  Done /\ HasHistory =>
    LET c == Chronicle
        n == HistLen
    IN  \A i \in TitledAlerts("Sustained Water Level Decline") :
           LET v == alerts[i].value.n
           IN  /\ n - v >= 1
               /\ 10 * alerts[i].message[3].tenths
                    = c[n].groundwaterLevel.n - c[n - v].groundwaterLevel.n
               /\ c[n].groundwaterLevel.n - c[n - v].groundwaterLevel.n > 0

\* C28 (amended): the depth change quoted is the groundwaterLevel of the
\* latest record minus that of the record v positions before it, a record
\* that exists, rounded to one decimal; the change itself is strictly
\* positive, while the figure quoted may be 0.0.
C28_TotalRiseRounded ==
  Done /\ HasHistory =>
    LET c == Chronicle
        n == HistLen
    IN  \A i \in TitledAlerts("Sustained Water Level Decline") :
           LET v      == alerts[i].value.n
               quoted == 10 * alerts[i].message[3].tenths
           IN  /\ n - v >= 1
               /\ LET change == c[n].groundwaterLevel.n - c[n - v].groundwaterLevel.n
                  IN  /\ change > 0
                      /\ quoted - 5 <= change /\ change <= quoted + 5

\* A streak of 3 at the end of 6 records: the level rose by 3 cm over the
\* streak and by more over the whole history, and the alert quotes 0.0.
C28_Witness ==
  /\ Done /\ HasHistory /\ HistLen = 6
  /\ \E i \in TitledAlerts("Sustained Water Level Decline") :
        /\ alerts[i].value = Num(3)
        /\ alerts[i].message[3] = Fixed1(0)
        /\ Chronicle[6].groundwaterLevel.n - Chronicle[3].groundwaterLevel.n = 3
        /\ Chronicle[6].groundwaterLevel.n - Chronicle[1].groundwaterLevel.n # 3

---------------------------------------------------------------------------
(* The updates and the alerts of one record *)

\* Both functions have been called for the latest record of locationData.
BothDone == pc = "done" /\ Len(updates) = 5

AlertsOfCategory(category) ==
  {i \in 1..Len(alerts) : alerts[i].category = category}

\* C26 (as claimed): the Rainfall update is of priority high with the
\* below-normal text exactly when a Rainfall alert is raised for the same
\* record, the boundary rainfall == 700 included.
C26_RainfallAgreement ==
  BothDone =>
    /\ updates[2].priority = "high" <=> AlertsOfCategory("Rainfall") # {}
    /\ updates[2].body[2] = Str("Below normal levels. Drought alert issued.")
         <=> AlertsOfCategory("Rainfall") # {}

\* C27 (as claimed): the Water Quality update says the quality is within
\* acceptable standards exactly when no Water Quality alert is raised for
\* the same record, the boundaries ph == 6.5 and ph == 8.0 included.
C27_WaterQualityAgreement ==
  BothDone =>
    (updates[3].body[2] = Str("Water quality is within acceptable BIS standards.")
       <=> AlertsOfCategory("Water Quality") = {})

---------------------------------------------------------------------------
(* TrendBadge *)

Rendered == pc = "rendered"

\* C24 (as claimed): TrendBadge renders nothing when current or previous is
\* undefined or null or previous is 0; otherwise the change is
\* (current - previous) / |previous| * 100, the badge is neutral iff
\* |change| < 1, and else it is good iff (change > 0) differs from invert.
C24_TrendBadge ==
  Rendered =>
    IF \/ Absent(badge.current)
       \/ Absent(badge.previous)
       \/ badge.previous = Num(0)
    THEN ~badge.out.rendered
    ELSE LET num == 100 * (badge.current.n - badge.previous.n)
             den == IF badge.previous.n < 0 THEN 0 - badge.previous.n
                    ELSE badge.previous.n
             abs == IF num < 0 THEN 0 - num ELSE num
         IN  /\ badge.out.rendered
             /\ badge.out.change = [kind |-> "finite", num |-> num, den |-> den]
             /\ badge.out.isNeutral <=> abs < den
             /\ ~badge.out.isNeutral => (badge.out.isGood <=> ((num > 0) # badge.invert))

---------------------------------------------------------------------------
(* The save of generateReport *)

Strategies == <<"Cache", "Documents", "Blob", "jsPDF">>

\* C23 (as claimed): on a native platform the strategies are tried in the
\* order Cache write and share, Documents write, blob download, jsPDF save,
\* each only after the one before it threw; nothing runs after a strategy
\* has completed, so the file is written by at most one strategy; in a
\* browser only jsPDF save is called.
C23_OneStrategyWrites ==
  /\ report.native =>
       /\ Len(report.tried) <= 4
       /\ \A i \in 1..Len(report.tried) : report.tried[i] = Strategies[i]
  /\ ~report.native => \A i \in 1..Len(report.tried) : report.tried[i] = "jsPDF"
  /\ Len(report.written) <= 1
  /\ report.pc = "done" =>
       report.written = << report.tried[Len(report.tried)] >>

---------------------------------------------------------------------------
(* MapComponent *)

MapMounted == map.pc = "mounted"

\* C29: while the map is mounted, gpsLoading is true exactly while a
\* geolocation request issued by handleLocate awaits its callback; at most
\* one request is outstanding; without geolocation no request is issued and
\* gpsLoading stays false; the GPS-found message and the error message are
\* never shown together.
C29_LoadingWhileOutstanding ==
  MapMounted =>
    /\ map.gpsLoading <=> map.outstanding > 0
    /\ map.outstanding <= 1
    /\ ~map.geolocation => map.outstanding = 0 /\ ~map.gpsLoading
    /\ ~(ShowsFound(map) /\ ShowsError(map))

\* A second request is outstanding after a first one was answered with a
\* position.
C29_Witness ==
  /\ MapMounted
  /\ map.gpsLoading
  /\ map.outstanding = 1
  /\ map.gpsPosition # Null

\* The marker's latitude and longitude are numbers, present, non-zero and
\* inside 19.35..20.90 by 73.20..74.90, the bounds included.
InsideDistrict(m) ==
  LET lat == LatOf(m)
      lng == LngOf(m)
  IN  /\ lat.t = "number" /\ lng.t = "number"
      /\ lat.n # 0 /\ lng.n # 0
      /\ 193500 <= lat.n /\ lat.n <= 209000
      /\ 732000 <= lng.n /\ lng.n <= 749000

Kept == { i \in 1..Len(map.markers) : InsideDistrict(map.markers[i]) }

Offset == IF map.singleMarker # Undefined THEN 1 ELSE 0

\* C30: in the bounded component the marker list holds exactly the markers
\* whose latitude and longitude are present and inside NASHIK_BOUNDS (bounds
\* included), in input order, after the single marker, which when supplied
\* comes first, at the map centre, whatever its own coordinates.
C30_MarkersInsideDistrict ==
  (MapMounted /\ map.bounded) =>
    /\ Len(map.allMarkers) = Offset + Cardinality(Kept)
    /\ \A i \in Kept :
         LET e == map.allMarkers[Offset + Cardinality({j \in Kept : j <= i})]
         IN  /\ e.from = map.markers[i]
             /\ e.position = <<LatOf(map.markers[i]), LngOf(map.markers[i])>>
             /\ ~e.isSingle
    /\ Offset = 1 =>
         /\ map.allMarkers[1].from = map.singleMarker
         /\ map.allMarkers[1].isSingle
         /\ map.allMarkers[1].position =
              IF map.center # Undefined
                THEN <<map.center.lat, map.center.lng>>
                ELSE <<Num(199975), Num(737898)>>

\* A single marker from outside the district is followed by a marker on the
\* southern bound, a marker outside having been dropped.
C30_Witness ==
  /\ MapMounted /\ map.bounded
  /\ map.singleMarker # Undefined
  /\ Len(map.markers) = 2
  /\ LatOf(map.markers[1]) = Num(193499)
  /\ LatOf(map.markers[2]) = Num(193500)
  /\ Len(map.allMarkers) = 2
  /\ map.allMarkers[2].position = <<Num(193500), Num(740000)>>

====
